---- MODULE Spec2Model ----
(***************************************************************************)
(* Game-progression state machine of the "click the country" game.        *)
(*                                                                         *)
(* The model follows src/src/useGameState.ts: the GameState record held   *)
(* by the useGameState hook, the three updaters handleCountryClick,       *)
(* skipCountry and resetGame, createInitialState with the Fisher-Yates    *)
(* shuffle, and the re-initialisation that runs when the country data     *)
(* arrives.  Indices are 0-based as in the source; a TLA+ sequence is     *)
(* 1-based, so the element the source calls a[i] is At(a, i).             *)
(***************************************************************************)
EXTENDS Integers, Sequences, FiniteSets, TLC

\* ------------------------------------------------------------------ bounds

\* Largest catalog (number of features of countries.json) explored.
MaxCountries == 3
\* Largest value of wrongClicks explored.
MaxWrongClicks == 2
\* Largest value of Date.now() explored.
MaxTime == 2

\* ------------------------------------------------------- values of the code

\* JavaScript null (lastWrongId: string | null).
null == "null"
\* JavaScript undefined (an array read out of range).
undefined == "undefined"
\* The empty string '' used as "no target".
EmptyString == ""

\* Feature ids of the data set, in file order (ISO 3166-1 numeric codes as
\* strings); a catalog of n countries is the first n of them.
FeatureIds == <<"4", "8", "12", "16", "20", "24">>
\* An id that no feature of any catalog carries.
UnknownId == "999"

Features(n) == SubSeq(FeatureIds, 1, n)

\* Every catalog the data file may hold: 0..MaxCountries distinct features.
Catalogs == { Features(n) : n \in 0..MaxCountries }

\* The ids a caller may pass to handleCountryClick: every feature id, in the
\* catalog or not, and an id no catalog holds.  Ids are non-empty strings
\* (String(numericId)); '' is the code's value for "no target".
ClickIds == { FeatureIds[i] : i \in 1..MaxCountries } \cup {UnknownId}

\* a[i] of the source, for a 0-based index i.
At(a, i) == IF i >= 0 /\ i < Len(a) THEN a[i + 1] ELSE undefined

\* The set of elements of an array.
Elems(a) == { a[k] : k \in 1..Len(a) }

\* ------------------------------------------------------------------ shuffle

\* Draws of Math.floor(Math.random() * array.length): every index of the
\* array at every iteration.
DrawsAnyIndex(n) == [1..(n - 1) -> 0..(n - 1)]

\* The results of Math.floor(Math.random() * (i + 1)) for i = n-1 .. 1:
\* one draw j in 0..i for every iteration of the loop of shuffleArray.
DrawsOf(n) == { d \in [1..(n - 1) -> 0..(n - 1)] : \A i \in 1..(n - 1) : d[i] <= i }

\* DrawsOf for every catalog size, computed once.
DrawsTable == [n \in 0..MaxCountries |-> DrawsOf(n)]

\* The draw sequences of one call of shuffleArray on an array of n elements.
Draws(n) == DrawsTable[n]

\* [a[i], a[j]] = [a[j], a[i]] for 0-based i, j.
Swap(a, i, j) == [a EXCEPT ![i + 1] = a[j + 1], ![j + 1] = a[i + 1]]

RECURSIVE ShuffleLoop(_, _, _)
\* for (let i = shuffled.length - 1; i > 0; i--) { j = draw; swap(i, j) }
ShuffleLoop(shuffled, i, d) ==
    IF i > 0 THEN ShuffleLoop(Swap(shuffled, i, d[i]), i - 1, d) ELSE shuffled

\* The shuffle working on the caller's array instead of a copy.
shuffleArrayInPlace(array, d) ==
    LET shuffled == ShuffleLoop(array, Len(array) - 1, d)
    IN  [shuffled |-> shuffled, array |-> shuffled]

\* shuffleArray: shuffles a copy ([...array]); `array` is the caller's array
\* as the call leaves it.
shuffleArray(array, d) ==
    LET copy == array
    IN  [shuffled |-> ShuffleLoop(copy, Len(copy) - 1, d), array |-> array]

\* ------------------------------------------------------------- game state

\* createInitialState(countryIds): the new GameState, and the caller's
\* countryIds array as the call leaves it.
createInitialState(ids, d) ==
    LET r == shuffleArray(ids, d)
    IN  [state |-> [completed |-> {},
                    skipped |-> {},
                    wrongClicks |-> 0,
                    currentTargetId |-> IF At(r.shuffled, 0) = undefined
                                        THEN EmptyString ELSE At(r.shuffled, 0),
                    status |-> "playing",
                    lastWrongId |-> null,
                    lastWrongTimestamp |-> 0,
                    countryOrder |-> r.shuffled,
                    currentIndex |-> 0],
         countryIds |-> r.array]

\* handleCountryClick whose end test is off by one (> for >=).
handleCountryClickOffByOne(prev, countryId, dateNow) ==
    IF prev.status = "finished" THEN prev
    ELSE IF countryId \in prev.completed THEN prev
    ELSE IF countryId = prev.currentTargetId
    THEN LET nextIndex == prev.currentIndex + 1
             isFinished == nextIndex > Len(prev.countryOrder)
         IN  [prev EXCEPT !.completed = prev.completed \cup {countryId},
                          !.currentIndex = nextIndex,
                          !.currentTargetId = IF isFinished THEN EmptyString
                                              ELSE At(prev.countryOrder, nextIndex),
                          !.status = IF isFinished THEN "finished" ELSE "playing",
                          !.lastWrongId = null]
    ELSE [prev EXCEPT !.wrongClicks = prev.wrongClicks + 1,
                      !.lastWrongId = countryId,
                      !.lastWrongTimestamp = dateNow]

\* handleCountryClick that does not count a wrong click repeated on the
\* country that is already lastWrongId.
handleCountryClickDedupWrong(prev, countryId, dateNow) ==
    IF prev.status = "finished" THEN prev
    ELSE IF countryId \in prev.completed THEN prev
    ELSE IF countryId = prev.currentTargetId
    THEN LET nextIndex == prev.currentIndex + 1
             isFinished == nextIndex >= Len(prev.countryOrder)
         IN  [prev EXCEPT !.completed = prev.completed \cup {countryId},
                          !.currentIndex = nextIndex,
                          !.currentTargetId = IF isFinished THEN EmptyString
                                              ELSE At(prev.countryOrder, nextIndex),
                          !.status = IF isFinished THEN "finished" ELSE "playing",
                          !.lastWrongId = null]
    ELSE IF countryId = prev.lastWrongId THEN prev
    ELSE [prev EXCEPT !.wrongClicks = prev.wrongClicks + 1,
                      !.lastWrongId = countryId,
                      !.lastWrongTimestamp = dateNow]

\* handleCountryClick without the check for an already completed country.
handleCountryClickNoCompletedCheck(prev, countryId, dateNow) ==
    IF prev.status = "finished" THEN prev
    ELSE IF countryId = prev.currentTargetId
    THEN LET nextIndex == prev.currentIndex + 1
             isFinished == nextIndex >= Len(prev.countryOrder)
         IN  [prev EXCEPT !.completed = prev.completed \cup {countryId},
                          !.currentIndex = nextIndex,
                          !.currentTargetId = IF isFinished THEN EmptyString
                                              ELSE At(prev.countryOrder, nextIndex),
                          !.status = IF isFinished THEN "finished" ELSE "playing",
                          !.lastWrongId = null]
    ELSE [prev EXCEPT !.wrongClicks = prev.wrongClicks + 1,
                      !.lastWrongId = countryId,
                      !.lastWrongTimestamp = dateNow]

\* handleCountryClick whose wrong click moves on to the next country.
handleCountryClickWrongAdvances(prev, countryId, dateNow) ==
    IF prev.status = "finished" THEN prev
    ELSE IF countryId \in prev.completed THEN prev
    ELSE LET nextIndex == prev.currentIndex + 1
             isFinished == nextIndex >= Len(prev.countryOrder)
         IN  IF countryId = prev.currentTargetId
             THEN [prev EXCEPT
                     !.completed = prev.completed \cup {countryId},
                     !.currentIndex = nextIndex,
                     !.currentTargetId = IF isFinished THEN EmptyString
                                         ELSE At(prev.countryOrder, nextIndex),
                     !.status = IF isFinished THEN "finished" ELSE "playing",
                     !.lastWrongId = null]
             ELSE [prev EXCEPT
                     !.wrongClicks = prev.wrongClicks + 1,
                     !.lastWrongId = countryId,
                     !.lastWrongTimestamp = dateNow,
                     !.currentIndex = nextIndex,
                     !.currentTargetId = IF isFinished THEN EmptyString
                                         ELSE At(prev.countryOrder, nextIndex),
                     !.status = IF isFinished THEN "finished" ELSE "playing"]

\* handleCountryClick that ignores a click on a skipped country as it ignores
\* one on a completed country.
handleCountryClickSkippedNoOp(prev, countryId, dateNow) ==
    IF prev.status = "finished" THEN prev
    ELSE IF countryId \in prev.completed \cup prev.skipped THEN prev
    ELSE IF countryId = prev.currentTargetId
    THEN LET nextIndex == prev.currentIndex + 1
             isFinished == nextIndex >= Len(prev.countryOrder)
         IN  [prev EXCEPT !.completed = prev.completed \cup {countryId},
                          !.currentIndex = nextIndex,
                          !.currentTargetId = IF isFinished THEN EmptyString
                                              ELSE At(prev.countryOrder, nextIndex),
                          !.status = IF isFinished THEN "finished" ELSE "playing",
                          !.lastWrongId = null]
    ELSE [prev EXCEPT !.wrongClicks = prev.wrongClicks + 1,
                      !.lastWrongId = countryId,
                      !.lastWrongTimestamp = dateNow]

\* handleCountryClick that validates the id against the play order and
\* ignores a click on an id it does not know.
handleCountryClickIgnoresUnknown(prev, countryId, dateNow) ==
    IF prev.status = "finished" THEN prev
    ELSE IF countryId \in prev.completed THEN prev
    ELSE IF countryId \notin Elems(prev.countryOrder) THEN prev
    ELSE IF countryId = prev.currentTargetId
    THEN LET nextIndex == prev.currentIndex + 1
             isFinished == nextIndex >= Len(prev.countryOrder)
         IN  [prev EXCEPT !.completed = prev.completed \cup {countryId},
                          !.currentIndex = nextIndex,
                          !.currentTargetId = IF isFinished THEN EmptyString
                                              ELSE At(prev.countryOrder, nextIndex),
                          !.status = IF isFinished THEN "finished" ELSE "playing",
                          !.lastWrongId = null]
    ELSE [prev EXCEPT !.wrongClicks = prev.wrongClicks + 1,
                      !.lastWrongId = countryId,
                      !.lastWrongTimestamp = dateNow]

\* The setState updater of handleCountryClick: prev -> next state.
handleCountryClick(prev, countryId, dateNow) ==
    IF prev.status = "finished" THEN prev
    ELSE IF countryId \in prev.completed THEN prev
    ELSE IF countryId = prev.currentTargetId
    THEN LET nextIndex == prev.currentIndex + 1
             isFinished == nextIndex >= Len(prev.countryOrder)
         IN  [prev EXCEPT !.completed = prev.completed \cup {countryId},
                          !.currentIndex = nextIndex,
                          !.currentTargetId = IF isFinished THEN EmptyString
                                              ELSE At(prev.countryOrder, nextIndex),
                          !.status = IF isFinished THEN "finished" ELSE "playing",
                          !.lastWrongId = null]
    ELSE [prev EXCEPT !.wrongClicks = prev.wrongClicks + 1,
                      !.lastWrongId = countryId,
                      !.lastWrongTimestamp = dateNow]

\* skipCountry that advances without recording the skipped country.
skipCountryNotRecorded(prev) ==
    IF prev.status = "finished" THEN prev
    ELSE LET nextIndex == prev.currentIndex + 1
             isFinished == nextIndex >= Len(prev.countryOrder)
         IN  [prev EXCEPT !.currentIndex = nextIndex,
                          !.currentTargetId = IF isFinished THEN EmptyString
                                              ELSE At(prev.countryOrder, nextIndex),
                          !.status = IF isFinished THEN "finished" ELSE "playing",
                          !.lastWrongId = null]

\* skipCountry without the check for a finished game.
skipCountryAfterFinish(prev) ==
    LET nextIndex == prev.currentIndex + 1
        isFinished == nextIndex >= Len(prev.countryOrder)
    IN  [prev EXCEPT !.skipped = prev.skipped \cup {prev.currentTargetId},
                     !.currentIndex = nextIndex,
                     !.currentTargetId = IF isFinished THEN EmptyString
                                         ELSE At(prev.countryOrder, nextIndex),
                     !.status = IF isFinished THEN "finished" ELSE "playing",
                     !.lastWrongId = null]

\* skipCountry that leaves lastWrongId as it was.
skipCountryKeepsLastWrong(prev) ==
    IF prev.status = "finished" THEN prev
    ELSE LET nextIndex == prev.currentIndex + 1
             isFinished == nextIndex >= Len(prev.countryOrder)
         IN  [prev EXCEPT !.skipped = prev.skipped \cup {prev.currentTargetId},
                          !.currentIndex = nextIndex,
                          !.currentTargetId = IF isFinished THEN EmptyString
                                              ELSE At(prev.countryOrder, nextIndex),
                          !.status = IF isFinished THEN "finished" ELSE "playing"]

\* The setState updater of skipCountry: prev -> next state.
skipCountry(prev) ==
    IF prev.status = "finished" THEN prev
    ELSE LET nextIndex == prev.currentIndex + 1
             isFinished == nextIndex >= Len(prev.countryOrder)
         IN  [prev EXCEPT !.skipped = prev.skipped \cup {prev.currentTargetId},
                          !.currentIndex = nextIndex,
                          !.currentTargetId = IF isFinished THEN EmptyString
                                              ELSE At(prev.countryOrder, nextIndex),
                          !.status = IF isFinished THEN "finished" ELSE "playing",
                          !.lastWrongId = null]

\* ---------------------------------------------------------------- the hook

VARIABLES
    state,          \* the GameState of useState (replaced wholesale)
    countriesData,  \* App's countriesData: [isNull, features]
    countryIds,     \* the memoised id array derived from countriesData
    now,            \* the value Date.now() returns
    before,         \* history: the `prev` the last setState updater was given;
                    \* a state set by value (a new session) has none and
                    \* is recorded as its own predecessor
    lastOp,         \* history: the last operation and its arguments
    animatingWrongId,   \* WorldMap: the country shown as wrong (or null)
    timers,         \* WorldMap: the timeouts scheduled and not yet run
    effect,         \* WorldMap: the committed effect: its deps and the
                    \* timeouts its cleanup clears
    mapHist,        \* history: the wrong click the highlight stands for and
                    \* the timeouts last cancelled and last run
    queue,          \* React's queue of setState updates not yet rendered
    app,            \* App's loading and error state
    script          \* the download script: the geometries it read and the
                    \* features it wrote

hookVars == <<state, countriesData, countryIds, now, before, lastOp>>

viewVars == <<animatingWrongId, timers, effect, mapHist>>

vars == <<hookVars, viewVars, queue, app, script>>

\* The catalog: the feature ids of the loaded data ([] while it is null).
CatalogIds == Elems(countriesData.features)

\* An operation, its arguments and the status it found.
Op(name, countryId, ids, statusBefore) ==
    [name |-> name, countryId |-> countryId, ids |-> ids,
     statusBefore |-> statusBefore]

\* First render: countriesData is null, so countryIds is [] and the state is
\* createInitialState([]).
Init ==
    /\ animatingWrongId = null
    /\ timers = {}
    /\ effect = [mounted |-> FALSE, deps |-> <<null, 0>>, cleanup |-> {}]
    /\ mapHist = [since |-> <<null, 0>>, superseded |-> {}, fired |-> {},
                  firedOn |-> <<null, 0>>]
    /\ queue = <<>>
    /\ app = [loading |-> TRUE, error |-> null]
    /\ script = [phase |-> "start", geometries |-> <<>>, features |-> <<>>]
    /\ countriesData = [isNull |-> TRUE, features |-> <<>>]
    /\ \E d \in Draws(0) :
         LET r == createInitialState(<<>>, d)
         IN  /\ state = r.state
             /\ before = r.state
             /\ countryIds = r.countryIds
    /\ now = 1
    /\ lastOp = Op("init", null, <<>>, "none")

\* The arrival of data as an operation: the play order it found as well.
LoadOp(name, features) ==
    [name |-> name, countryId |-> null, ids |-> features,
     statusBefore |-> state.status, orderBefore |-> state.countryOrder]

\* setCountriesData followed by a re-initialisation whenever countryIds is
\* non-empty, whatever the state holds.
SetCountriesDataAlwaysInit(features) ==
    /\ countriesData' = [isNull |-> FALSE, features |-> features]
    /\ IF Len(features) > 0
       THEN \E d \in Draws(Len(features)) :
              LET r == createInitialState(features, d)
              IN  /\ state' = r.state
                  /\ before' = r.state
                  /\ countryIds' = r.countryIds
                  /\ lastOp' = LoadOp("loadInit", features)
       ELSE /\ state' = state
            /\ before' = before
            /\ countryIds' = features
            /\ lastOp' = LoadOp("load", features)
    /\ UNCHANGED now

\* setCountriesData(data).  The next render derives countryIds and runs the
\* effect "reset game when countries change": a fresh state iff countryIds is
\* non-empty and countryOrder is empty.
SetCountriesData(features) ==
    /\ countriesData' = [isNull |-> FALSE, features |-> features]
    /\ IF Len(features) > 0 /\ Len(state.countryOrder) = 0
       THEN \E r \in {createInitialState(features, d) :
                       d \in Draws(Len(features))} :
              /\ state' = r.state
              /\ before' = r.state
              /\ countryIds' = r.countryIds
              /\ lastOp' = LoadOp("loadInit", features)
       ELSE /\ state' = state
            /\ before' = before
            /\ countryIds' = features
            /\ lastOp' = LoadOp("load", features)
    /\ UNCHANGED now

\* The fetch of /countries.json resolves while countriesData is null.
LoadData(features) ==
    /\ countriesData.isNull
    /\ SetCountriesData(features)

\* A call of handleCountryClick(countryId).
CountryClick(countryId) ==
    LET next == handleCountryClick(state, countryId, now)
    IN  /\ next.wrongClicks <= MaxWrongClicks
        /\ state' = next
        /\ before' = state
        /\ lastOp' = Op("click", countryId, countryIds, state.status)
        /\ UNCHANGED <<countriesData, countryIds, now>>

\* A call of skipCountry().
SkipCountry ==
    /\ state' = skipCountry(state)
    /\ before' = state
    /\ lastOp' = Op("skip", null, countryIds, state.status)
    /\ UNCHANGED <<countriesData, countryIds, now>>

\* resetGame that carries the wrong-click count over to the new game.
ResetGameKeepsScore ==
    /\ \E d \in Draws(Len(countryIds)) :
         LET r == createInitialState(countryIds, d)
         IN  /\ state' = [r.state EXCEPT !.wrongClicks = state.wrongClicks]
             /\ before' = [r.state EXCEPT !.wrongClicks = state.wrongClicks]
             /\ countryIds' = r.countryIds
    /\ lastOp' = Op("reset", null, countryIds, state.status)
    /\ UNCHANGED <<countriesData, now>>

\* A call of resetGame(): setState(createInitialState(countryIds)).
ResetGame ==
    /\ \E r \in {createInitialState(countryIds, d) :
                    d \in Draws(Len(countryIds))} :
         /\ state' = r.state
         /\ before' = r.state
         /\ countryIds' = r.countryIds
    /\ lastOp' = Op("reset", null, countryIds, state.status)
    /\ UNCHANGED <<countriesData, now>>

\* Wall-clock time passes.
Tick ==
    /\ now < MaxTime
    /\ now' = now + 1
    /\ UNCHANGED <<state, countriesData, countryIds, before, lastOp>>

Load == \E features \in Catalogs : LoadData(features)

Click == \E countryId \in ClickIds : CountryClick(countryId)

\* The hook alone: WorldMap is not mounted and every update is rendered at
\* once.
Next ==
    \/ Load /\ UNCHANGED <<viewVars, queue, app, script>>
    \/ Click /\ UNCHANGED <<viewVars, queue, app, script>>
    \/ SkipCountry /\ UNCHANGED <<viewVars, queue, app, script>>
    \/ ResetGame /\ UNCHANGED <<viewVars, queue, app, script>>
    \/ Tick /\ UNCHANGED <<viewVars, queue, app, script>>

Spec == Init /\ [][Next]_vars

\* --------------------------------------------------- data arriving again

\* setCountriesData is called again with the same data (App's load effect
\* run twice): countryIds is a new array and the re-initialisation test is
\* evaluated against the current state.
ReloadData ==
    /\ ~countriesData.isNull
    /\ SetCountriesData(countriesData.features)

LifecycleNext ==
    \/ Load /\ UNCHANGED <<viewVars, queue, app, script>>
    \/ ReloadData /\ UNCHANGED <<viewVars, queue, app, script>>
    \/ Click /\ UNCHANGED <<viewVars, queue, app, script>>
    \/ SkipCountry /\ UNCHANGED <<viewVars, queue, app, script>>
    \/ ResetGame /\ UNCHANGED <<viewVars, queue, app, script>>

LifecycleSpec == Init /\ [][LifecycleNext]_vars

\* The user clicks the current target or skips.
Advance ==
    /\ \/ SkipCountry
       \/ \E countryId \in ClickIds :
            countryId = state.currentTargetId /\ CountryClick(countryId)
    /\ UNCHANGED <<viewVars, queue, app, script>>

\* The user keeps clicking the current target or skipping.
LifecycleFairSpec == LifecycleSpec /\ WF_vars(Advance)

\* ------------------------------------------------------------ WorldMap

\* The largest catalog shown on the map.
MaxMapCountries == 2

\* The catalogs the map is mounted with.
MapCatalogs == {Features(n) : n \in 0..MaxMapCountries}

\* The animation duration passed to setTimeout, in ms.
AnimationDuration == 700

\* WorldMap's state as one value.
View == [animatingWrongId |-> animatingWrongId, timers |-> timers,
         effect |-> effect]

\* The timeout scheduled by the effect of a wrong click.
Timer(lastWrongId, lastWrongTimestamp, dateNow) ==
    [id |-> lastWrongId, at |-> lastWrongTimestamp,
     due |-> dateNow + AnimationDuration]

\* The effect without a cleanup: a scheduled timeout is never cleared.
useEffectWithoutCleanup(view, lastWrongId, lastWrongTimestamp, dateNow) ==
    LET deps == <<lastWrongId, lastWrongTimestamp>>
    IN  IF view.effect.mounted /\ deps = view.effect.deps THEN view
        ELSE IF lastWrongId # null /\ lastWrongId # EmptyString
                /\ lastWrongTimestamp # 0
        THEN LET timer == Timer(lastWrongId, lastWrongTimestamp, dateNow)
             IN  [animatingWrongId |-> lastWrongId,
                  timers |-> view.timers \cup {timer},
                  effect |-> [mounted |-> TRUE, deps |-> deps,
                              cleanup |-> {}]]
        ELSE [view EXCEPT !.effect = [mounted |-> TRUE, deps |-> deps,
                                      cleanup |-> {}]]

\* The effect with [lastWrongId] as its only dependency.
useEffectOnIdOnly(view, lastWrongId, lastWrongTimestamp, dateNow) ==
    LET deps == <<lastWrongId, lastWrongTimestamp>>
        kept == view.timers \ view.effect.cleanup
    IN  IF view.effect.mounted /\ lastWrongId = view.effect.deps[1] THEN view
        ELSE IF lastWrongId # null /\ lastWrongId # EmptyString
                /\ lastWrongTimestamp # 0
        THEN LET timer == Timer(lastWrongId, lastWrongTimestamp, dateNow)
             IN  [animatingWrongId |-> lastWrongId,
                  timers |-> kept \cup {timer},
                  effect |-> [mounted |-> TRUE, deps |-> deps,
                              cleanup |-> {timer}]]
        ELSE [view EXCEPT !.timers = kept,
                          !.effect = [mounted |-> TRUE, deps |-> deps,
                                      cleanup |-> {}]]

\* useEffect(..., [lastWrongId, lastWrongTimestamp]) after a render of
\* WorldMap with these props: nothing when the deps are those of the committed
\* effect; otherwise the committed effect's cleanup (clearTimeout of its
\* timer, if it returned one) and then the effect's body.
useEffect(view, lastWrongId, lastWrongTimestamp, dateNow) ==
    LET deps == <<lastWrongId, lastWrongTimestamp>>
        kept == view.timers \ view.effect.cleanup
    IN  IF view.effect.mounted /\ deps = view.effect.deps THEN view
        ELSE IF lastWrongId # null /\ lastWrongId # EmptyString
                /\ lastWrongTimestamp # 0
        THEN LET timer == Timer(lastWrongId, lastWrongTimestamp, dateNow)
             IN  [animatingWrongId |-> lastWrongId,
                  timers |-> kept \cup {timer},
                  effect |-> [mounted |-> TRUE, deps |-> deps,
                              cleanup |-> {timer}]]
        ELSE [view EXCEPT !.timers = kept,
                          !.effect = [mounted |-> TRUE, deps |-> deps,
                                      cleanup |-> {}]]

\* WorldMap is rendered with the new state and its effect is run.
Rendered ==
    LET v == useEffect(View, state'.lastWrongId, state'.lastWrongTimestamp,
                       now')
        ran == v.effect # effect
    IN  /\ animatingWrongId' = v.animatingWrongId
        /\ timers' = v.timers
        /\ effect' = v.effect
        /\ mapHist' = [mapHist EXCEPT
                         !.since = IF v.timers \ timers # {}
                                   THEN v.effect.deps ELSE @,
                         !.superseded = IF ran THEN timers \ v.timers ELSE @]
        /\ UNCHANGED <<queue, app, script>>

\* The data arrives: App leaves its loading screen and mounts WorldMap.
MapLoad == \E features \in MapCatalogs : LoadData(features) /\ Rendered

\* A click on a country path: handleClick forwards it while isPlaying.
MapClick ==
    \E countryId \in CatalogIds :
        /\ state.status = "playing"
        /\ CountryClick(countryId)
        /\ Rendered

\* The skip button of the header, shown while the game is not finished.
MapSkip ==
    /\ ~countriesData.isNull
    /\ state.status # "finished"
    /\ SkipCountry
    /\ Rendered

\* The reset button.
MapReset ==
    /\ ~countriesData.isNull
    /\ ResetGame
    /\ Rendered

\* A timeout expires and its callback runs: setAnimatingWrongId(null).  The
\* clock of the model stays below the duration, so a scheduled timeout may
\* expire at any later step.
TimerFires(timer) ==
    /\ timer \in timers
    /\ animatingWrongId' = null
    /\ timers' = timers \ {timer}
    /\ mapHist' = [mapHist EXCEPT !.fired = {timer},
                                  !.firedOn = mapHist.since,
                                  !.since = <<null, 0>>]
    /\ UNCHANGED <<hookVars, effect, queue, app, script>>

TimerExpires == \E timer \in timers : TimerFires(timer)

MapTick == Tick /\ UNCHANGED <<viewVars, queue, app, script>>

MapNext ==
    \/ MapLoad
    \/ MapClick
    \/ MapSkip
    \/ MapReset
    \/ TimerExpires
    \/ MapTick

MapSpec == Init /\ [][MapNext]_vars

\* The browser runs the callback of every timeout that is not cleared.
MapFairSpec == MapSpec /\ WF_vars(TimerExpires)

\* ------------------------------------------------------ App's history list

\* The countries derived from the data ([] while it is null), by their ids.
countries == IF countriesData.isNull THEN <<>> ELSE countriesData.features

\* countryMap.get(id): the country, or undefined.
getCountryById(id) == IF id \in Elems(countries) THEN id ELSE undefined

RECURSIVE completedCountriesLoop(_, _)
\* The loop of completedCountries from index i on: the entries of
\* countryOrder[i .. currentIndex - 1] whose id is found in countryMap.
completedCountriesLoop(i, result) ==
    IF ~(i < state.currentIndex) THEN result
    ELSE LET id == At(state.countryOrder, i)
             country == getCountryById(id)
         IN  IF country # undefined
             THEN completedCountriesLoop(i + 1,
                      Append(result, [id |-> country,
                                      wasSkipped |-> id \in state.skipped]))
             ELSE completedCountriesLoop(i + 1, result)

\* App's completedCountries, the list the Sidebar shows.
completedCountries == completedCountriesLoop(0, <<>>)

\* The completedCount and totalCount props of the Header.
completedCount == Cardinality(state.completed) + Cardinality(state.skipped)

totalCount == Len(countries)

\* ------------------------------------------------------------- the App

\* The message App shows when loading the data failed.
ErrorMessage == "Failed to load map data."

\* The ways loadData fails: fetch rejects, the response is not ok, or
\* response.json() rejects.  Each ends in the catch block.
FetchFailures == {"fetch rejected", "response not ok", "json rejected"}

\* App that renders the game as soon as loading is over.
GameRenderedAfterLoading == ~app.loading

\* App renders Header, WorldMap and Sidebar: it is neither loading nor in
\* error, and countriesData is set.
GameRendered == ~app.loading /\ app.error = null /\ ~countriesData.isNull

\* loadData succeeds: setCountriesData(data); setLoading(false).
FetchSucceeds ==
    /\ app.loading
    /\ \E features \in Catalogs : LoadData(features)
    /\ app' = [app EXCEPT !.loading = FALSE]
    /\ UNCHANGED <<viewVars, queue, script>>

\* loadData fails: setError(message); setLoading(false).
FetchFails ==
    /\ app.loading
    /\ \E failure \in FetchFailures :
         app' = [loading |-> FALSE, error |-> ErrorMessage]
    /\ UNCHANGED <<hookVars, viewVars, queue, script>>

\* A click on a country path of the rendered map, forwarded while isPlaying.
AppClick ==
    /\ GameRendered
    /\ state.status = "playing"
    /\ \E countryId \in CatalogIds : CountryClick(countryId)
    /\ UNCHANGED <<viewVars, queue, app, script>>

\* The skip button of the rendered header, shown while not finished.
AppSkip ==
    /\ GameRendered
    /\ state.status # "finished"
    /\ SkipCountry
    /\ UNCHANGED <<viewVars, queue, app, script>>

\* The reset button of the rendered header.
AppReset ==
    /\ GameRendered
    /\ ResetGame
    /\ UNCHANGED <<viewVars, queue, app, script>>

AppNext ==
    \/ FetchSucceeds
    \/ FetchFails
    \/ AppClick
    \/ AppSkip
    \/ AppReset

AppSpec == Init /\ [][AppNext]_vars

\* ------------------------------------------------- the download script

\* The most geometries in the downloaded countries object.
MaxGeometries == 2

\* JavaScript values of the source data: numbers, strings and undefined
\* (a key that is absent).
JsNumber(n) == [type |-> "number", n |-> n, s |-> EmptyString]

JsString(s) == [type |-> "string", n |-> 0, s |-> s]

JsUndefined == [type |-> "undefined", n |-> 0, s |-> EmptyString]

\* ToBoolean(v): undefined, 0 and '' are falsy.
Truthy(v) ==
    IF v.type = "number" THEN v.n # 0
    ELSE IF v.type = "string" THEN v.s # EmptyString
    ELSE FALSE

\* a || b
Or(a, b) == IF Truthy(a) THEN a ELSE b

\* String(v)
String(v) == IF v.type = "number" THEN ToString(v.n) ELSE v.s

\* The ids a geometry of the source carries: none, the "no code" value as
\* number and as string, Antarctica as string and as number, and an ISO
\* 3166-1 numeric code.
SourceIds ==
    {JsUndefined, JsNumber(-99), JsString("-99"), JsString("010"),
     JsNumber(10), JsString("004")}

\* The property name, NAME, ADMIN and NAME_LONG of a geometry.
Props(name, NAME, ADMIN, NAME_LONG) ==
    [name |-> name, NAME |-> NAME, ADMIN |-> ADMIN, NAME_LONG |-> NAME_LONG]

SourceProperties ==
    {Props(JsUndefined, JsUndefined, JsUndefined, JsUndefined),
     Props(JsString(EmptyString), JsUndefined, JsUndefined, JsUndefined),
     Props(JsString("Fiji"), JsUndefined, JsUndefined, JsUndefined),
     Props(JsUndefined, JsUndefined, JsString("Fiji"), JsUndefined),
     Props(JsString(EmptyString), JsUndefined, JsUndefined,
           JsString("Republic of Fiji"))}

SourceGeometries == [id : SourceIds, properties : SourceProperties]

\* The geometries arrays of at most MaxGeometries geometries.
GeometryArrays ==
    UNION {[1..n -> SourceGeometries] : n \in 0..MaxGeometries}

\* topoJsonToGeoJson: the features of the geometries; id: geom.id ?? index
\* (index counts from 0).
topoJsonToGeoJson(geometries) ==
    [index \in 1..Len(geometries) |->
        [id |-> IF geometries[index].id # JsUndefined
                THEN geometries[index].id ELSE JsNumber(index - 1),
         properties |-> geometries[index].properties]]

\* The name processCountryData reads from a feature.
NameOf(feature) ==
    Or(Or(Or(feature.properties.name, feature.properties.NAME),
          feature.properties.ADMIN),
       feature.properties.NAME_LONG)

RECURSIVE processFeatures(_, _)
\* The loop of processCountryData over the features left.
processFeatures(features, processedFeatures) ==
    IF features = <<>> THEN processedFeatures
    ELSE LET feature == Head(features)
             name == NameOf(feature)
             numericId == feature.id
         IN  IF \/ numericId = JsNumber(-99)
                \/ numericId = JsString("-99")
                \/ ~Truthy(name)
             THEN processFeatures(Tail(features), processedFeatures)
             ELSE IF numericId = JsString("010") \/ numericId = JsNumber(10)
             THEN processFeatures(Tail(features), processedFeatures)
             ELSE processFeatures(Tail(features),
                      Append(processedFeatures,
                             [id |-> String(numericId),
                              name |-> String(name)]))

\* processCountryData: the features written to countries.json.
processCountryData(geometries) ==
    processFeatures(topoJsonToGeoJson(geometries), <<>>)

\* downloadJson resolves with the source data.
Download ==
    /\ script.phase = "start"
    /\ \E geometries \in GeometryArrays :
         script' = [script EXCEPT !.phase = "downloaded",
                                  !.geometries = geometries]
    /\ UNCHANGED <<hookVars, viewVars, queue, app>>

\* main processes the data and writes countries.json.
Process ==
    /\ script.phase = "downloaded"
    /\ script' = [script EXCEPT
                    !.phase = "written",
                    !.features = processCountryData(script.geometries)]
    /\ UNCHANGED <<hookVars, viewVars, queue, app>>

DataNext ==
    \/ Download
    \/ Process

DataSpec == Init /\ [][DataNext]_vars

\* ------------------------------------------------ queued state updates

\* The most setState calls made before React renders.
MaxQueue == 2

\* The largest catalog played with queued updates.
MaxQueueCountries == 1

QueueCatalogs == {Features(n) : n \in 0..MaxQueueCountries}

\* handleCountryClick that computes the next state from the state of the
\* render it was created in and passes the value to setState.
setStateOfClickFromSnapshot(snapshot, countryId, dateNow) ==
    [kind |-> "value",
     value |-> handleCountryClick(snapshot, countryId, dateNow)]

\* What handleCountryClick passes to setState: its updater function.
setStateOfClick(snapshot, countryId, dateNow) ==
    [kind |-> "updater", name |-> "click", countryId |-> countryId]

\* What skipCountry passes to setState: its updater function.
setStateOfSkip(snapshot) ==
    [kind |-> "updater", name |-> "skip", countryId |-> null]

\* What resetGame passes to setState: the value createInitialState(countryIds).
setStateOfReset(ids, d) ==
    [kind |-> "value", value |-> createInitialState(ids, d).state]

RECURSIVE processUpdateQueue(_, _, _)
\* React's processing of the queued updates at the next render: in the order
\* of the calls, an updater function is applied to the result of the previous
\* update and a value replaces it.
processUpdateQueue(s, updates, dateNow) ==
    IF updates = <<>> THEN s
    ELSE LET update == Head(updates)
             next == IF update.kind = "value" THEN update.value
                     ELSE IF update.name = "click"
                     THEN handleCountryClick(s, update.countryId, dateNow)
                     ELSE skipCountry(s)
         IN  processUpdateQueue(next, Tail(updates), dateNow)

\* A handler calls setState(update) once; call is the user action, kept as
\* history.
Enqueue(update, call) ==
    /\ ~countriesData.isNull
    /\ Len(queue) < MaxQueue
    /\ queue' = Append(queue, [update |-> update, call |-> call])
    /\ before' = state
    /\ lastOp' = Op("call", null, countryIds, state.status)
    /\ UNCHANGED <<state, countriesData, countryIds, now, viewVars, app,
                   script>>

QueueLoad ==
    /\ queue = <<>>
    /\ \E features \in QueueCatalogs : LoadData(features)
    /\ UNCHANGED <<viewVars, queue, app, script>>

QueueClick ==
    \E countryId \in CatalogIds \cup {UnknownId} :
        Enqueue(setStateOfClick(state, countryId, now),
                [name |-> "click", countryId |-> countryId])

\* The skip button is there while the rendered state is not finished.
QueueSkip ==
    /\ state.status # "finished"
    /\ Enqueue(setStateOfSkip(state), [name |-> "skip"])

QueueReset ==
    \E d \in Draws(Len(countryIds)) :
        Enqueue(setStateOfReset(countryIds, d),
                [name |-> "reset",
                 fresh |-> createInitialState(countryIds, d).state])

\* React renders: the queued updates are processed and the queue is empty.
Render ==
    /\ queue # <<>>
    /\ LET updates == [i \in 1..Len(queue) |-> queue[i].update]
           next == processUpdateQueue(state, updates, now)
       IN  /\ next.wrongClicks <= MaxWrongClicks
           /\ state' = next
    /\ before' = state
    /\ lastOp' = [name |-> "render", countryId |-> null, ids |-> countryIds,
                  statusBefore |-> state.status,
                  calls |-> [i \in 1..Len(queue) |-> queue[i].call]]
    /\ queue' = <<>>
    /\ UNCHANGED <<countriesData, countryIds, now, viewVars, app, script>>

QueueNext ==
    \/ QueueLoad
    \/ QueueClick
    \/ QueueSkip
    \/ QueueReset
    \/ Render

QueueSpec == Init /\ [][QueueNext]_vars

\* ------------------------------------------------------------ properties

\* a and b hold the same elements the same number of times.
IsPermutation(a, b) ==
    /\ Len(a) = Len(b)
    /\ \A x \in Elems(a) \cup Elems(b) :
         Cardinality({k \in 1..Len(a) : a[k] = x})
           = Cardinality({k \in 1..Len(b) : b[k] = x})

\* The last operation replaced the state by createInitialState(lastOp.ids):
\* the first render, resetGame, or the data load that starts the session.
Created == lastOp.name \in {"init", "reset", "loadInit"}

\* C1: in every reachable state size(completed) + size(skipped) equals
\* currentIndex.
C1_CountsEqualCursor ==
    Cardinality(state.completed) + Cardinality(state.skipped) = state.currentIndex

\* C1 witness: a session in which countries were both completed and skipped.
C1_Witness ==
    /\ lastOp.name \in {"click", "skip"}
    /\ state.completed # {}
    /\ state.skipped # {}
    /\ state.currentIndex >= 2

\* C2: in every reachable state status is finished iff currentIndex equals
\* the length of countryOrder.
C2_FinishedIffCursorAtEnd ==
    (state.status = "finished") <=> (state.currentIndex = Len(state.countryOrder))

\* C3: in every reachable state 0 <= currentIndex <= length of countryOrder.
C3_CursorInRange ==
    0 <= state.currentIndex /\ state.currentIndex <= Len(state.countryOrder)

\* C4: createInitialState([]) yields status finished and an empty
\* countryOrder.
C4_EmptyInitIsFinished ==
    (Created /\ lastOp.ids = <<>>)
        => (state.status = "finished" /\ state.countryOrder = <<>>)

\* The current target playOrder[cursor] of the state the last operation was
\* applied to (undefined when the cursor is outside countryOrder).
TargetBefore == At(before.countryOrder, before.currentIndex)

\* C5: for every non-empty list of distinct ids createInitialState yields a
\* countryOrder that is a permutation of the ids, currentIndex 0, completed
\* and skipped empty, wrongClicks 0, lastWrongId null, status playing and
\* current target countryOrder[0]; the input list is left as it was.
C5_InitialState ==
    (Created /\ lastOp.ids # <<>>) =>
        /\ IsPermutation(state.countryOrder, lastOp.ids)
        /\ state.currentIndex = 0
        /\ state.completed = {}
        /\ state.skipped = {}
        /\ state.wrongClicks = 0
        /\ state.lastWrongId = null
        /\ state.status = "playing"
        /\ state.currentTargetId = At(state.countryOrder, 0)
        /\ countryIds = lastOp.ids

\* C5 witness: a state created from the largest catalog whose order
\* differs from the order of the input list.
C5_Witness ==
    /\ Created
    /\ Len(lastOp.ids) = MaxCountries
    /\ Len(lastOp.ids) >= 2
    /\ state.countryOrder # lastOp.ids

\* C6: in a playing state a click on the current target countryOrder[
\* currentIndex] adds exactly that id to completed, advances currentIndex
\* by 1, clears lastWrongId, leaves skipped, wrongClicks and countryOrder
\* unchanged, and sets status to finished exactly when the new currentIndex
\* equals the length of countryOrder; otherwise status stays playing and the
\* target becomes countryOrder[new currentIndex].
C6_CorrectClick ==
    (/\ lastOp.name = "click"
     /\ before.status = "playing"
     /\ lastOp.countryId = TargetBefore) =>
        /\ lastOp.countryId \notin before.completed
        /\ state.completed = before.completed \cup {lastOp.countryId}
        /\ state.currentIndex = before.currentIndex + 1
        /\ state.lastWrongId = null
        /\ state.skipped = before.skipped
        /\ state.wrongClicks = before.wrongClicks
        /\ state.countryOrder = before.countryOrder
        /\ state.status \in {"playing", "finished"}
        /\ (state.status = "finished")
             <=> (state.currentIndex = Len(state.countryOrder))
        /\ (state.status = "playing")
             => (state.currentTargetId = At(state.countryOrder, state.currentIndex))

\* C6 witness: a correct click that ended the game of a catalog of at least
\* two countries.
C6_Witness ==
    /\ lastOp.name = "click"
    /\ before.status = "playing"
    /\ lastOp.countryId = TargetBefore
    /\ Len(state.countryOrder) >= 2
    /\ state.status = "finished"

\* C7: in a playing state a click on an id that is neither the current target
\* nor in completed leaves currentIndex, completed, skipped, status,
\* countryOrder and the current target unchanged, increments wrongClicks by
\* exactly 1, sets lastWrongId to the clicked id and sets lastWrongTimestamp
\* to a value >= the previous one.
C7_WrongClick ==
    (/\ lastOp.name = "click"
     /\ before.status = "playing"
     /\ lastOp.countryId # TargetBefore
     /\ lastOp.countryId \notin before.completed) =>
        /\ state.currentIndex = before.currentIndex
        /\ state.completed = before.completed
        /\ state.skipped = before.skipped
        /\ state.status = before.status
        /\ state.countryOrder = before.countryOrder
        /\ state.currentTargetId = before.currentTargetId
        /\ state.wrongClicks = before.wrongClicks + 1
        /\ state.lastWrongId = lastOp.countryId
        /\ state.lastWrongTimestamp >= before.lastWrongTimestamp

\* C7 witness: a wrong click on the country that was already lastWrongId, at
\* a later time than the first one.
C7_Witness ==
    /\ lastOp.name = "click"
    /\ before.status = "playing"
    /\ lastOp.countryId # TargetBefore
    /\ lastOp.countryId \notin before.completed
    /\ before.lastWrongId = lastOp.countryId
    /\ state.lastWrongTimestamp > before.lastWrongTimestamp

\* C8: in every playing state skip advances currentIndex by exactly 1, adds
\* exactly the previous current target (an id of the catalog) to skipped,
\* leaves completed and wrongClicks unchanged, clears lastWrongId and sets
\* status to finished exactly when the new currentIndex equals the length of
\* countryOrder.
C8_Skip ==
    (lastOp.name = "skip" /\ before.status = "playing") =>
        /\ state.currentIndex = before.currentIndex + 1
        /\ TargetBefore \in Elems(lastOp.ids)
        /\ TargetBefore \notin before.skipped
        /\ state.skipped = before.skipped \cup {TargetBefore}
        /\ state.completed = before.completed
        /\ state.wrongClicks = before.wrongClicks
        /\ state.lastWrongId = null
        /\ (state.status = "finished")
             <=> (state.currentIndex = Len(state.countryOrder))

\* Once the game is finished every click and every skip returns the state
\* unchanged.
FinishedIgnoresPlay ==
    (lastOp.name \in {"click", "skip"} /\ before.status = "finished")
        => state = before

\* C9 (as claimed): once status is finished every click and every skip returns
\* the state unchanged, and the only operation that leaves finished is reset.
C9_FinishedTerminal ==
    /\ FinishedIgnoresPlay
    /\ (lastOp.statusBefore = "finished" /\ state.status # "finished")
         => lastOp.name = "reset"

\* C9 (amended): once status is finished every click and every skip returns
\* the state unchanged, and the only operations that leave finished are reset
\* and the re-initialisation that runs when the country data arrives while
\* countryOrder is empty.
C9_FinishedTerminalUntilNewState ==
    /\ FinishedIgnoresPlay
    /\ (lastOp.statusBefore = "finished" /\ state.status # "finished")
         => lastOp.name \in {"reset", "loadInit"}

\* C9 witness: a skip applied to a finished game of a non-empty catalog.
C9_Witness ==
    /\ lastOp.name = "skip"
    /\ before.status = "finished"
    /\ Len(before.countryOrder) >= 1

\* C10: a click on an id that is already in completed leaves the state
\* unchanged (wrongClicks, lastWrongId and lastWrongTimestamp included), in
\* every reachable state.
C10_CompletedClickIsNoOp ==
    (lastOp.name = "click" /\ lastOp.countryId \in before.completed)
        => state = before

\* C10 witness: a completed country clicked again while the game is still
\* playing, and the state the click returned is the one it was given.
C10_Witness ==
    /\ lastOp.name = "click"
    /\ lastOp.countryId \in before.completed
    /\ before.status = "playing"
    /\ state = before

\* The last operation was a click on the current target of a playing game.
CorrectClick ==
    /\ lastOp.name = "click"
    /\ before.status = "playing"
    /\ lastOp.countryId = TargetBefore

\* The last operation was a click of a playing game on an id that is neither
\* the current target nor completed.
WrongClick ==
    /\ lastOp.name = "click"
    /\ before.status = "playing"
    /\ lastOp.countryId # TargetBefore
    /\ lastOp.countryId \notin before.completed

\* The last operation was a skip of a playing game.
PlayingSkip == lastOp.name = "skip" /\ before.status = "playing"

\* C11: reset after any sequence of clicks and skips, from playing or
\* finished, yields a fresh initial state: wrongClicks 0, completed and
\* skipped empty, currentIndex 0, lastWrongId null, countryOrder a
\* permutation of the catalog ids, and status playing when the catalog is
\* non-empty.
C11_ResetIsFresh ==
    (lastOp.name = "reset") =>
        /\ state.wrongClicks = 0
        /\ state.completed = {}
        /\ state.skipped = {}
        /\ state.currentIndex = 0
        /\ state.lastWrongId = null
        /\ IsPermutation(state.countryOrder, countriesData.features)
        /\ (countriesData.features # <<>>) => (state.status = "playing")

\* C11 witness: a reset of a finished game of the largest catalog that
\* draws an order other than the catalog's.
C11_Witness ==
    /\ lastOp.name = "reset"
    /\ lastOp.statusBefore = "finished"
    /\ Len(countriesData.features) = MaxCountries
    /\ state.countryOrder # countriesData.features

\* C12: in every reachable state completed and skipped are disjoint and hold
\* only ids of the catalog, and no click or skip removes an id from
\* completed.
C12_SetsDisjointInCatalog ==
    /\ state.completed \cap state.skipped = {}
    /\ state.completed \subseteq CatalogIds
    /\ state.skipped \subseteq CatalogIds
    /\ (lastOp.name \in {"click", "skip"})
         => (before.completed \subseteq state.completed)

\* C13 (as claimed): after every correct click, every skip and every reset
\* both lastWrongId and lastWrongTimestamp are cleared; a non-null
\* lastWrongId or a non-zero lastWrongTimestamp can only be the result of a
\* wrong click with no later correct click, skip or reset.
C13_LastWrongCleared ==
    (CorrectClick \/ PlayingSkip \/ lastOp.name = "reset")
        => (state.lastWrongId = null /\ state.lastWrongTimestamp = 0)

\* C13 (amended): after every correct click, every skip and every reset
\* lastWrongId is null; a correct click and a skip leave lastWrongTimestamp
\* as it was, and only a new game (reset, data load) sets it back to 0; a
\* non-null lastWrongId can only be the result of a wrong click with no later
\* correct click, skip or reset.
C13_LastWrongIdCleared ==
    /\ (CorrectClick \/ PlayingSkip)
         => /\ state.lastWrongId = null
            /\ state.lastWrongTimestamp = before.lastWrongTimestamp
    /\ (lastOp.name = "reset")
         => (state.lastWrongId = null /\ state.lastWrongTimestamp = 0)
    /\ (state.lastWrongId # null)
         => /\ lastOp.name \in {"click", "load"}
            /\ ~CorrectClick
            /\ state.wrongClicks >= 1
            /\ state.lastWrongTimestamp >= 1
            /\ (lastOp.name = "click")
                 => \/ WrongClick /\ state.lastWrongId = lastOp.countryId
                    \/ state = before

\* C13 witness: a correct click that follows a wrong click; lastWrongId is
\* cleared and the time of the wrong click is still in the state.
C13_Witness ==
    /\ CorrectClick
    /\ before.lastWrongId # null
    /\ state.lastWrongId = null
    /\ state.lastWrongTimestamp >= 1

\* The values a GameState may hold (types of GameState).
GameStates ==
    [completed : SUBSET (Elems(FeatureIds) \cup {EmptyString}),
     skipped : SUBSET (Elems(FeatureIds) \cup {EmptyString}),
     wrongClicks : Nat,
     currentTargetId : Elems(FeatureIds) \cup {EmptyString},
     status : {"playing", "finished"},
     lastWrongId : ClickIds \cup {null},
     lastWrongTimestamp : Nat,
     countryOrder : Seq(Elems(FeatureIds)),
     currentIndex : Nat]

RECURSIVE Factorial(_)
\* n! : the number of orders of n distinct ids.
Factorial(n) == IF n <= 1 THEN 1 ELSE n * Factorial(n - 1)

\* The orders shuffleArray can return for ids, one per sequence of draws.
ShuffleResults(ids) ==
    {shuffleArray(ids, d).shuffled : d \in Draws(Len(ids))}

\* C19: the shuffle of createInitialState is uniform: for n distinct ids
\* every one of the n! permutations can be produced, and the order of a new
\* game is produced by exactly one sequence of draws j in 0..i.
C19_ShuffleUniform ==
    (Created /\ lastOp.ids # <<>>) =>
        LET ids == lastOp.ids
            hits == {d \in Draws(Len(ids)) :
                        shuffleArray(ids, d).shuffled = state.countryOrder}
        IN  /\ Cardinality(hits) = 1
            /\ \A order \in ShuffleResults(ids) : IsPermutation(order, ids)
            /\ Cardinality(ShuffleResults(ids)) = Factorial(Len(ids))

\* C19 witness: a new game of the largest catalog whose order is the
\* catalog's reversed.
C19_Witness ==
    /\ Created
    /\ Len(lastOp.ids) = MaxCountries
    /\ MaxCountries >= 3
    /\ \A i \in 1..MaxCountries :
         state.countryOrder[i] = lastOp.ids[MaxCountries + 1 - i]

\* C15: a stale highlight timer never erases a newer highlight: a timeout
\* scheduled for the wrong click at t1 never clears the highlight set by a
\* later wrong click; the newer highlight is cleared only by its own
\* timeout.  Every pending timeout belongs to the wrong click the highlight
\* stands for, and the timeout that ran last cleared the highlight of its own
\* wrong click.
C15_NoStaleClear ==
    /\ \A timer \in timers : <<timer.id, timer.at>> = mapHist.since
    /\ \A timer \in mapHist.fired : <<timer.id, timer.at>> = mapHist.firedOn

\* C15 witness: a wrong click at t1, a wrong click at t2 > t1 while the first
\* timeout was pending, and the second timeout has run.
C15_Witness ==
    /\ animatingWrongId = null
    /\ \E old \in mapHist.superseded : \E timer \in mapHist.fired :
         /\ old.at < timer.at
         /\ mapHist.firedOn = <<timer.id, timer.at>>

\* C16: whenever a wrong click sets animatingWrongId, the highlight is
\* eventually cleared, by its timeout or by a state-clearing transition
\* (correct click, skip, reset); it never stays set indefinitely when no
\* further wrong click occurs (no step raises wrongClicks from some point on).
C16_HighlightCleared ==
    (<>[][state'.wrongClicks <= state.wrongClicks]_vars)
        => ((animatingWrongId # null) ~> (animatingWrongId = null))

\* C17: a repeated wrong click retriggers the highlight: after every wrong
\* click, one on the id that already is lastWrongId included, the highlight
\* shows that id and the only pending timeout is one scheduled for this
\* click, due a full duration after its lastWrongTimestamp.
C17_WrongClickRetriggers ==
    WrongClick =>
        \/ /\ animatingWrongId = state.lastWrongId
           /\ timers = {Timer(state.lastWrongId, state.lastWrongTimestamp,
                              state.lastWrongTimestamp)}
           /\ state.lastWrongTimestamp >= before.lastWrongTimestamp
        \/ /\ animatingWrongId = null
           /\ timers = {}
           /\ mapHist.fired = {Timer(state.lastWrongId,
                                     state.lastWrongTimestamp,
                                     state.lastWrongTimestamp)}

\* C17 witness: a second wrong click on the same id at a later time, made
\* while the timeout of the first was pending; that timeout is cancelled and
\* a new one is pending.
C17_Witness ==
    /\ WrongClick
    /\ before.lastWrongId = lastOp.countryId
    /\ before.lastWrongTimestamp < state.lastWrongTimestamp
    /\ mapHist.superseded = {Timer(before.lastWrongId,
                                   before.lastWrongTimestamp,
                                   before.lastWrongTimestamp)}
    /\ timers # {}

\* C20: when the catalog first becomes available with a non-empty id list,
\* the session is replaced by a fresh initial state over all catalog ids,
\* whatever was done to the empty session before; a session with a non-empty
\* countryOrder is never replaced by the arrival of data (only a reset
\* replaces it).
C20_LoadInitialises ==
    /\ (lastOp.name = "loadInit")
         => /\ lastOp.orderBefore = <<>>
            /\ IsPermutation(state.countryOrder, countriesData.features)
            /\ state.countryOrder # <<>>
            /\ state.currentIndex = 0
            /\ state.completed = {}
            /\ state.skipped = {}
            /\ state.wrongClicks = 0
            /\ state.lastWrongId = null
            /\ state.status = "playing"
            /\ state.currentTargetId = state.countryOrder[1]
    /\ (lastOp.name = "load")
         => /\ state.countryOrder = lastOp.orderBefore
            /\ state.status = lastOp.statusBefore
            /\ lastOp.orderBefore = <<>> => lastOp.ids = <<>>

\* C20 witness: the data of a non-empty catalog has initialised the session
\* and arrives again while the game is in progress; the session is kept.
C20_Witness ==
    /\ lastOp.name = "load"
    /\ lastOp.orderBefore # <<>>
    /\ state.currentIndex > 0
    /\ state.status = "playing"

\* The one transition of a user action, applied to the state s.
Transition(s, call, dateNow) ==
    IF call.name = "click" THEN handleCountryClick(s, call.countryId, dateNow)
    ELSE IF call.name = "skip" THEN skipCountry(s)
    ELSE call.fresh

RECURSIVE InOrder(_, _, _)
\* The state left by the user actions calls, each applied to the state left
\* by the one before it.
InOrder(s, calls, dateNow) ==
    IF calls = <<>> THEN s
    ELSE InOrder(Transition(s, Head(calls), dateNow), Tail(calls), dateNow)

\* C18: each user action triggers exactly one state transition, applied to
\* the state left by the previous action: when several actions are queued
\* before the next render, the rendered state is the one reached by applying
\* every action in order; none is lost and none sees a stale state.
C18_QueuedInOrder ==
    (lastOp.name = "render") => (state = InOrder(before, lastOp.calls, now))

\* C18 witness: a render of at least two queued actions whose first is a
\* correct click and whose second is a click or skip that, applied to the
\* state the render started from, would have given another result.
C18_Witness ==
    /\ lastOp.name = "render"
    /\ Len(lastOp.calls) >= 2
    /\ lastOp.calls[1].name = "click"
    /\ lastOp.calls[1].countryId = before.currentTargetId
    /\ lastOp.calls[2].name \in {"click", "skip"}
    /\ before.status = "playing"
    /\ state # InOrder(before, Tail(lastOp.calls), now)

\* C23: in every reachable state the stored target is consistent with the
\* cursor: while playing, currentTargetId is countryOrder[currentIndex] and
\* is an id of the catalog that is neither completed nor skipped; while
\* finished, currentTargetId is empty.
C23_TargetConsistent ==
    /\ (state.status = "playing")
         => /\ state.currentTargetId = At(state.countryOrder, state.currentIndex)
            /\ state.currentTargetId \in CatalogIds
            /\ state.currentTargetId \notin state.completed \cup state.skipped
    /\ (state.status = "finished") => (state.currentTargetId = EmptyString)

\* C26: a click on a skipped country is not a no-op: while playing it is a
\* wrong click (wrongClicks + 1, lastWrongId set), the id stays in skipped
\* and is not moved to completed; no skipped id is ever completed.
C26_SkippedClickIsWrong ==
    /\ state.completed \cap state.skipped = {}
    /\ (/\ lastOp.name = "click"
        /\ before.status = "playing"
        /\ lastOp.countryId \in before.skipped)
         => /\ state.wrongClicks = before.wrongClicks + 1
            /\ state.lastWrongId = lastOp.countryId
            /\ state.skipped = before.skipped
            /\ state.completed = before.completed
            /\ state.currentIndex = before.currentIndex

\* C26 witness: a click of a playing game on a country skipped before.
C26_Witness ==
    /\ lastOp.name = "click"
    /\ before.status = "playing"
    /\ lastOp.countryId \in before.skipped
    /\ lastOp.countryId \in CatalogIds

\* The advancing transitions of a game of at least one country are counted
\* by currentIndex: a correct click and a skip of a playing game add one, any
\* other click adds nothing, and the game is finished exactly when the count
\* is the number of countries; then every country is completed or skipped.
AdvancesCounted ==
    (state.countryOrder # <<>>) =>
        /\ state.currentIndex
             = Cardinality(state.completed) + Cardinality(state.skipped)
        /\ (state.status = "finished")
             <=> (state.currentIndex = Len(state.countryOrder))
        /\ (state.status = "finished")
             => (state.completed \cup state.skipped = Elems(state.countryOrder))
        /\ (CorrectClick \/ PlayingSkip)
             => (state.currentIndex = before.currentIndex + 1)
        /\ (lastOp.name \in {"click", "skip"} /\ ~CorrectClick /\ ~PlayingSkip)
             => /\ state.currentIndex = before.currentIndex
                /\ state.status = before.status

\* C25: a game of n >= 1 countries is finished after exactly n advancing
\* transitions (correct clicks and skips), however many wrong or ignored
\* clicks come in between; a wrong click neither advances nor delays the
\* cursor; and if the user keeps clicking the target or skipping, and no new
\* game is started from some point on, the game eventually finishes with
\* completed and skipped together the whole catalog.
C25_FinishesAfterNAdvances ==
    /\ []AdvancesCounted
    /\ (<>[][lastOp'.name \notin {"reset", "loadInit"}]_vars)
         => []((state.countryOrder # <<>>)
                 => <>(/\ state.status = "finished"
                       /\ state.completed \cup state.skipped = CatalogIds))

\* C25 witness: a finished game of the largest catalog with wrong clicks in
\* it, some countries completed and some skipped.
C25_Witness ==
    /\ state.status = "finished"
    /\ Len(state.countryOrder) = MaxCountries
    /\ state.wrongClicks >= 1
    /\ state.completed # {}
    /\ state.skipped # {}
    /\ state.completed \cup state.skipped = CatalogIds

\* C24: in every reachable state the history list of the Sidebar is exactly
\* countryOrder[0 .. currentIndex - 1] in play order, each entry flagged
\* wasSkipped iff its id is in skipped and otherwise in completed; so its
\* length is the Header's completedCount and never exceeds totalCount.
C24_HistoryIsPrefix ==
    /\ Len(completedCountries) = state.currentIndex
    /\ \A i \in 1..Len(completedCountries) :
         /\ completedCountries[i].id = At(state.countryOrder, i - 1)
         /\ completedCountries[i].wasSkipped
              <=> (completedCountries[i].id \in state.skipped)
         /\ ~completedCountries[i].wasSkipped
              => (completedCountries[i].id \in state.completed)
    /\ Len(completedCountries) = completedCount
    /\ Len(completedCountries) <= totalCount

\* C21: if fetching or parsing the catalog fails, the App ends in a blocking
\* error state (error set, loading false) and stays there; while the App is
\* loading or in error no click, skip or reset reaches the game session, so
\* the game is played only after a catalog was loaded.
C21_ErrorBlocks ==
    /\ []((app.error # null)
            => /\ ~app.loading
               /\ ~GameRendered
               /\ countriesData.isNull)
    /\ []((app.loading \/ app.error # null \/ countriesData.isNull)
            => /\ lastOp.name = "init"
               /\ state = before)
    /\ []((lastOp.name \in {"click", "skip", "reset"})
            => (GameRendered /\ ~countriesData.isNull))
    /\ [][(app.error # null) => UNCHANGED vars]_vars

\* C21 witness: loading has failed: the error is set and loading is over.
C21_Witness ==
    /\ app.error = ErrorMessage
    /\ ~app.loading
    /\ countriesData.isNull

\* The source geometry carries an ISO numeric code: it has an id and the id
\* is not -99.
HasIsoCode(geometry) ==
    /\ geometry.id # JsUndefined
    /\ geometry.id # JsNumber(-99)
    /\ geometry.id # JsString("-99")

\* The source geometry is Antarctica.
IsAntarctica(geometry) ==
    geometry.id = JsString("010") \/ geometry.id = JsNumber(10)

\* C22: processCountryData excludes every feature without a valid ISO
\* numeric code (id -99, or a source geometry without id), every feature
\* without a name and Antarctica: the written features are, in order, those
\* of the geometries with a code and a name other than Antarctica, each with
\* the geometry's code as its string id and a non-empty name.
C22_OnlyIsoCoded ==
    (script.phase = "written") =>
        LET kept == SelectSeq(script.geometries,
                              LAMBDA g : /\ HasIsoCode(g)
                                         /\ Truthy(NameOf(g))
                                         /\ ~IsAntarctica(g))
        IN  /\ Len(script.features) = Len(kept)
            /\ \A i \in 1..Len(script.features) :
                 /\ i <= Len(kept)
                      => /\ script.features[i].id = String(kept[i].id)
                         /\ script.features[i].name = String(NameOf(kept[i]))
                 /\ script.features[i].name # EmptyString

====
